---- MODULE Spec2Model ----
(***************************************************************************)
(* QtImageStackViewer (src/QtImageStackViewer.py): the image source, the   *)
(* scrollbars that hold the current indexes, the frame shown, and the      *)
(* play/pause loop.  One action per method or event handler; a handler    *)
(* runs to completion, except play(), which yields to the event loop at   *)
(* QApplication.processEvents() (l.358) and is resumed by PlayStep.        *)
(*                                                                         *)
(* Indexes are 0-based as in the code; sequences are 1-based, so index k   *)
(* of the code's list is element k+1 here.                                 *)
(*                                                                         *)
(* Not modelled: the label text (updateLabel), the viewer's zoom factor    *)
(* and the pixels themselves.  A frame is identified by the source it was  *)
(* decoded from, the frame position and the channel.                       *)
(*                                                                         *)
(* An exception that leaves a handler leaves the fields as they stand at   *)
(* that statement, and the program goes on with the next call or event.    *)
(* Where the toolkit ends the process instead, the run stops there: a      *)
(* prefix of a run described here.                                         *)
(***************************************************************************)
EXTENDS Integers, Sequences

\* ------------------------------------------------------------- bounds
MaxChannels == 2
MaxFrames == 3
MaxExtraDims == 1
MaxExtent == 2
MaxPlayDepth == 2

\* QAbstractSlider's maximum before setRange is called on a new QScrollBar.
QSliderDefaultMax == 99

\* ------------------------------------------------------------ sources
\* self._image: None, a numpy.ndarray (its shape after rows and columns),
\* or a PIL image (the number of its bands and its n_frames).
NoImage == [kind |-> "none", shape |-> <<>>, n_channels |-> 0, n_frames |-> 0]

NdArray(extra) == [kind |-> "ndarray", shape |-> extra, n_channels |-> 0, n_frames |-> 0]

PilImage(c, f) == [kind |-> "pil", shape |-> <<>>, n_channels |-> c, n_frames |-> f]

Shapes == UNION {[1..n -> 1..MaxExtent] : n \in 0..MaxExtraDims}

NdArrays == {NdArray(s) : s \in Shapes}

PilImages == {PilImage(c, f) : c \in 1..MaxChannels, f \in 1..MaxFrames}

\* self._currentFrame: one channel of a PIL frame, a PIL frame with all its
\* channels (the QImage of l.289 or, where toqimage() raises ValueError, the
\* array of l.292: the same pixels), or a slice of an ndarray.
NoFrame == [kind |-> "none", src |-> NoImage, frame |-> 0, chan |-> 0, idx |-> <<>>]

ChannelFrame(im, f, c) == [kind |-> "channel", src |-> im, frame |-> f, chan |-> c, idx |-> <<>>]

CompositeFrame(im, f) == [kind |-> "composite", src |-> im, frame |-> f, chan |-> 0, idx |-> <<>>]

SliceFrame(im, ix) == [kind |-> "slice", src |-> im, frame |-> 0, chan |-> 0, idx |-> ix]

\* ------------------------------------------------------------- state
VARIABLES
    image,              \* self._image
    pos,                \* the PIL image's current frame (Image.tell())
    separateChannels,   \* self._separateChannels
    scrollbars,         \* self._scrollbars: <<[maximum, value], ...>>, minimum 0
    currentFrame,       \* self._currentFrame
    isPlaying,          \* self._isPlaying
    stack,              \* the play() calls suspended in processEvents(), innermost last
    qAppDefined         \* the module was run as a script, so QApplication is bound (l.367-372)

vars == <<image, pos, separateChannels, scrollbars, currentFrame, isPlaying,
          stack, qAppDefined>>

\* The viewer's fields as one value, threaded through a handler's statements,
\* with what the handler did: exc is the exception being propagated ("none"
\* while running normally), err the last exception raised or reported,
\* resolveOk whether every updateFrame() saw one in-range index per axis, and
\* ops what the last updateFrame() did to the source, in order.
Viewer == [image |-> image, pos |-> pos, sep |-> separateChannels, scrollbars |-> scrollbars,
           currentFrame |-> currentFrame, err |-> "none", exc |-> "none",
           resolveOk |-> TRUE, ops |-> <<>>]

Raise(st, e) == [st EXCEPT !.exc = e, !.err = e]

\* ---------------------------------------------------------- helpers
\* [scrollbar.value() for scrollbar in self._scrollbars]
currentIndexes(st) == [k \in 1..Len(st.scrollbars) |-> st.scrollbars[k].value]

\* The sizes of the axes the current source has beyond one frame, in order.
AxisSizes(im, sep) ==
    IF im.kind = "ndarray" THEN im.shape
    ELSE IF im.kind = "pil" THEN
        (IF im.n_channels > 1 /\ sep THEN <<im.n_channels>> ELSE <<>>)
        \o (IF im.n_frames > 1 THEN <<im.n_frames>> ELSE <<>>)
    ELSE <<>>

\* One index per axis of the source, each below the axis's size.
IndexVectorValid(st) ==
    LET sizes == AxisSizes(st.image, st.sep)
        ix == currentIndexes(st)
    IN  /\ Len(ix) = Len(sizes)
        /\ \A k \in 1..Len(ix) : ix[k] >= 0 /\ ix[k] < sizes[k]

\* Python: list.extend() changes the list in place and returns None.
PyNone == [none |-> TRUE, items |-> <<>>]

ListExtend(l, more) == PyNone

\* Image.seek(n): EOFError beyond the last frame, position unchanged.
Seek(st, n) ==
    IF n < 0 \/ n >= st.image.n_frames
    THEN Raise([st EXCEPT !.ops = Append(@, "seek")], "EOFError")
    ELSE [st EXCEPT !.pos = n, !.ops = Append(@, "seek")]

\* ------------------------------------------------------ updateFrame
updateFrameNd(st) ==
    LET rowsCols == <<"rows", "cols">>
        indexes == ListExtend(rowsCols, currentIndexes(st))
    IN  IF indexes.none
        THEN Raise(st, "TypeError")        \* np.ix_(*None)
        ELSE [st EXCEPT !.currentFrame = SliceFrame(st.image, SubSeq(indexes.items, 3, Len(indexes.items))),
                        !.ops = Append(@, "slice")]

\* updateFramePil with the frame index read from the first scrollbar instead
\* of the last (indexes[0] for indexes[-1] at l.281).
updateFramePil_frameFromFirstIndex(st) ==
    LET im == st.image
        indexes == currentIndexes(st)
        s1 == IF im.n_frames > 1
              THEN IF indexes = <<>> THEN Raise(st, "IndexError")
                   ELSE Seek(st, indexes[1])
              ELSE st
    IN  IF s1.exc # "none" THEN s1
        ELSE IF im.n_channels > 1 /\ s1.sep
        THEN IF indexes = <<>> \/ indexes[1] >= im.n_channels
             THEN Raise([s1 EXCEPT !.ops = Append(@, "decode")], "IndexError")
             ELSE [s1 EXCEPT !.currentFrame = ChannelFrame(im, s1.pos, indexes[1]),
                             !.ops = Append(Append(@, "decode"), "extract")]
        ELSE [s1 EXCEPT !.currentFrame = CompositeFrame(im, s1.pos), !.ops = Append(@, "decode")]

updateFramePil(st) ==
    LET im == st.image
        indexes == currentIndexes(st)
        s1 == IF im.n_frames > 1
              THEN IF indexes = <<>> THEN Raise(st, "IndexError")
                   ELSE Seek(st, indexes[Len(indexes)])
              ELSE st
    IN  IF s1.exc # "none" THEN s1
        ELSE IF im.n_channels > 1 /\ s1.sep
        THEN IF indexes = <<>> \/ indexes[1] >= im.n_channels
             THEN Raise([s1 EXCEPT !.ops = Append(@, "decode")], "IndexError")
             ELSE [s1 EXCEPT !.currentFrame = ChannelFrame(im, s1.pos, indexes[1]),
                             !.ops = Append(Append(@, "decode"), "extract")]
        ELSE [s1 EXCEPT !.currentFrame = CompositeFrame(im, s1.pos), !.ops = Append(@, "decode")]

updateFrame(st) ==
    IF st.image.kind = "none" THEN st
    ELSE LET s0 == [st EXCEPT !.ops = <<>>, !.resolveOk = @ /\ IndexVectorValid(st)]
         IN  IF st.image.kind = "ndarray" THEN updateFrameNd(s0) ELSE updateFramePil(s0)

\* updateFrame as the slot of valueChanged (l.219, 242): its exception does not
\* reach the statement that changed the value.  PyQt reports it through
\* sys.excepthook and the statement goes on; where the hook ends the process
\* instead, the run stops there, which is a prefix of the run modelled here.
SlotUpdateFrame(st) ==
    LET r == updateFrame(st)
    IN  [r EXCEPT !.exc = "none"]

\* ----------------------------------------------------- QScrollBar
NewScrollBar == [maximum |-> QSliderDefaultMax, value |-> 0]

Bound(v, mx) == IF v < 0 THEN 0 ELSE IF v > mx THEN mx ELSE v

\* QScrollBar.setValue: clamps; emits valueChanged when the value changes.
SetValue(st, k, v) ==
    LET c == Bound(v, st.scrollbars[k].maximum)
    IN  IF c = st.scrollbars[k].value THEN st
        ELSE SlotUpdateFrame([st EXCEPT !.scrollbars[k].value = c])

\* QScrollBar.setRange(0, mx): clamps the value into the new range; emits
\* valueChanged when that changes it.
SetRange(st, k, mx) ==
    LET c == Bound(st.scrollbars[k].value, mx)
        s1 == [st EXCEPT !.scrollbars[k].maximum = mx]
    IN  IF c = st.scrollbars[k].value THEN s1
        ELSE SlotUpdateFrame([s1 EXCEPT !.scrollbars[k].value = c])

\* ---------------------------------------------------- updateViewer
\* The toolkit is PyQt5 when PyQt6 is missing (l.9-19).  l.217 names
\* Qt.Horizontal, which only PyQt5 defines; the ndarray branch is modelled as it
\* runs there, where the scrollbar is created.
\* l.212-215, 235-238: drop the scrollbars beyond n.
TrimScrollbars(st, n) ==
    IF Len(st.scrollbars) > n THEN [st EXCEPT !.scrollbars = SubSeq(@, 1, n)] ELSE st

\* l.216-221, 239-244: append new scrollbars up to n.
RECURSIVE GrowScrollbars(_, _)
GrowScrollbars(st, n) ==
    IF Len(st.scrollbars) >= n THEN st
    ELSE GrowScrollbars([st EXCEPT !.scrollbars = Append(@, NewScrollBar)], n)

\* l.222-224: for i in range(n_scrollbars), from index i (0-based).
RECURSIVE NdRangeLoop(_, _)
NdRangeLoop(st, i) ==
    IF i >= Len(st.image.shape) THEN st
    ELSE NdRangeLoop(SetValue(SetRange(st, i + 1, st.image.shape[i + 1]), i + 1, 0), i + 1)

updateViewerNd(st) ==
    LET n_scrollbars == Len(st.image.shape)     \* max(0, ndim - 2)
        s1 == TrimScrollbars(st, n_scrollbars)
    IN  NdRangeLoop(GrowScrollbars(s1, n_scrollbars), 0)

\* updateViewerPil with the frame scrollbar ranged as the ndarray branch ranges
\* its scrollbars (n_frames for n_frames - 1 at l.251).
updateViewerPil_frameRangeOffByOne(st) ==
    LET n_channels == st.image.n_channels
        n_frames == st.image.n_frames
        hasChannel == n_channels > 1 /\ st.sep
        n_scrollbars == (IF hasChannel THEN 1 ELSE 0) + (IF n_frames > 1 THEN 1 ELSE 0)
        s1 == GrowScrollbars(TrimScrollbars(st, n_scrollbars), n_scrollbars)
        s2 == IF hasChannel THEN SetValue(SetRange(s1, 1, n_channels - 1), 1, 0) ELSE s1
        i == IF hasChannel THEN 1 ELSE 0
    IN  IF n_frames > 1 THEN SetValue(SetRange(s2, i + 1, n_frames), i + 1, 0) ELSE s2

updateViewerPil(st) ==
    LET n_channels == st.image.n_channels
        n_frames == st.image.n_frames
        hasChannel == n_channels > 1 /\ st.sep
        n_scrollbars == (IF hasChannel THEN 1 ELSE 0) + (IF n_frames > 1 THEN 1 ELSE 0)
        s1 == GrowScrollbars(TrimScrollbars(st, n_scrollbars), n_scrollbars)
        s2 == IF hasChannel THEN SetValue(SetRange(s1, 1, n_channels - 1), 1, 0) ELSE s1
        i == IF hasChannel THEN 1 ELSE 0
    IN  IF n_frames > 1 THEN SetValue(SetRange(s2, i + 1, n_frames - 1), i + 1, 0) ELSE s2

updateViewer(st) ==
    IF st.image.kind = "none" THEN [st EXCEPT !.scrollbars = <<>>]
    ELSE LET s1 == IF st.image.kind = "ndarray" THEN updateViewerNd(st) ELSE updateViewerPil(st)
         IN  IF s1.exc # "none" THEN s1 ELSE updateFrame(s1)

\* ------------------------------------------------------- handlers
\* im is given at its first frame, as Image.open() returns it.
setImage(st, im) == updateViewer([st EXCEPT !.image = im, !.pos = 0])

setSeparateChannels(st, tf) == updateViewer([st EXCEPT !.sep = tf])

\* l.180-181: for i, index in enumerate(indexes), from element k (1-based).
RECURSIVE SetIndexesLoop(_, _, _)
SetIndexesLoop(st, indexes, k) ==
    IF k > Len(indexes) THEN st
    ELSE IF k > Len(st.scrollbars) THEN Raise(st, "IndexError")
    ELSE SetIndexesLoop(SetValue(st, k, indexes[k]), indexes, k + 1)

setCurrentIndexes(st, indexes) ==
    LET s1 == SetIndexesLoop(st, indexes, 1)
    IN  IF s1.exc # "none" THEN s1 ELSE updateFrame(s1)

\* The state a handler leaves.
Commit(st) ==
    /\ image' = st.image
    /\ pos' = st.pos
    /\ separateChannels' = st.sep
    /\ scrollbars' = st.scrollbars
    /\ currentFrame' = st.currentFrame

\* ----------------------------------------------------------- actions
Init ==
    /\ image = NoImage
    /\ pos = 0
    /\ separateChannels = FALSE
    /\ scrollbars = <<>>
    /\ currentFrame = NoFrame
    /\ isPlaying = FALSE
    /\ stack = <<>>
    /\ qAppDefined \in BOOLEAN

\* The API (setImage, open, setSeparateChannels, setCurrentIndexes) is called
\* between events, not from inside play(): what processEvents() (l.358)
\* dispatches are the widget's own events, the toolbar's play and pause actions
\* (l.100, 106), the wheel (l.326) and the scrollbars (l.219, 242).  Run as a
\* script the program calls only open(), before the event loop starts
\* (l.383-387); imported, play() never reaches an event loop (QApplication is
\* unbound).
AtTopLevel == stack = <<>>

SetImage ==
    /\ AtTopLevel
    /\ \E im \in NdArrays \cup PilImages \cup {NoImage} : Commit(setImage(Viewer, im))
    /\ UNCHANGED <<isPlaying, stack, qAppDefined>>

SetSeparateChannels ==
    /\ AtTopLevel
    /\ \E tf \in BOOLEAN : Commit(setSeparateChannels(Viewer, tf))
    /\ UNCHANGED <<isPlaying, stack, qAppDefined>>

\* open(): a file is chosen and PIL opens it at its first frame, or nothing
\* is chosen and nothing happens (l.135-139).
Open ==
    /\ AtTopLevel
    /\ \/ \E im \in PilImages : Commit(setImage(Viewer, im))
       \/ Commit(Viewer)
    /\ UNCHANGED <<isPlaying, stack, qAppDefined>>

\* The indexes a caller may pass: up to one more than there are scrollbars,
\* each from 0 to one past its scrollbar's maximum.
IndexInputs ==
    LET top(k) == IF k <= Len(scrollbars) THEN scrollbars[k].maximum + 1 ELSE 0
    IN  UNION {{ix \in [1..n -> 0..(MaxFrames + 1)] : \A k \in 1..n : ix[k] <= top(k)} :
               n \in 0..(Len(scrollbars) + 1)}

SetCurrentIndexes ==
    /\ AtTopLevel
    /\ \E indexes \in IndexInputs : Commit(setCurrentIndexes(Viewer, indexes))
    /\ UNCHANGED <<isPlaying, stack, qAppDefined>>

\* self._wheelScrollsFrame as the constructor sets it (l.75); its setter is not
\* modelled.
wheelScrollsFrame == TRUE

\* The user moves scrollbar k to v: valueChanged -> updateFrame.
SliderMoved ==
    /\ \E k \in 1..Len(scrollbars) :
         \E v \in 0..scrollbars[k].maximum :
            /\ v # scrollbars[k].value
            /\ Commit(SetValue(Viewer, k, v))
    /\ UNCHANGED <<isPlaying, stack, qAppDefined>>

\* l.326-344; down: event.angleDelta().y() < 0.
wheelEvent(st, down) ==
    IF st.scrollbars = <<>> THEN st
    ELSE LET n == Len(st.scrollbars)
             n_frames == st.scrollbars[n].maximum + 1
             i == st.scrollbars[n].value
             step(j) == updateFrame(SetValue(st, n, j))
         IN  IF wheelScrollsFrame /\ n_frames > 1
             THEN IF down
                  THEN IF i < n_frames - 1 THEN step(i + 1) ELSE st
                  ELSE IF i > 0 THEN step(i - 1) ELSE st
             ELSE st

WheelEvent ==
    /\ \E down \in BOOLEAN : Commit(wheelEvent(Viewer, down))
    /\ UNCHANGED <<isPlaying, stack, qAppDefined>>

\* ------------------------------------------------------ play / pause
\* One pass of the body of play()'s loop up to processEvents() (l.356-358).
playStep(st, i) ==
    IF st.scrollbars = <<>> THEN Raise(st, "IndexError")
    ELSE LET s2 == updateFrame(SetValue(st, Len(st.scrollbars), i))
         IN  IF s2.exc # "none" THEN s2
             ELSE IF ~qAppDefined THEN Raise(s2, "NameError")
             ELSE s2

\* play() is called (the toolbar's action, l.100) and runs to its first
\* processEvents().  paused is history: a pause arrived while this call was
\* suspended.
Play ==
    /\ Len(stack) < MaxPlayDepth
    /\ IF scrollbars = <<>>
       THEN /\ Commit(Viewer)
            /\ UNCHANGED <<isPlaying, stack>>
       ELSE LET n == Len(scrollbars)
                first == scrollbars[n].value
                last == scrollbars[n].maximum
                r == playStep(Viewer, first)
            IN  /\ Commit(r)
                /\ isPlaying' = TRUE
                /\ stack' = IF r.exc = "none"
                            THEN Append(stack, [i |-> first, last |-> last, paused |-> FALSE])
                            ELSE stack
    /\ UNCHANGED qAppDefined

Pop(s) == SubSeq(s, 1, Len(s) - 1)

\* playContinues without the test of l.359-360.
playContinues_ignoringPause(playing, f) == f.i + 1 <= f.last

\* l.355, 359-360: the loop goes on to its next pass when no pause was seen
\* and range(first, last + 1) is not exhausted.
playContinues(playing, f) == playing /\ f.i + 1 <= f.last

\* processEvents() returns to the innermost play(): l.359-361, then the next
\* pass of the loop.
PlayStep ==
    /\ stack # <<>>
    /\ LET f == stack[Len(stack)]
       IN  IF ~playContinues(isPlaying, f)
           THEN /\ isPlaying' = FALSE
                /\ stack' = Pop(stack)
                /\ Commit(Viewer)
           ELSE LET r == playStep(Viewer, f.i + 1)
                IN  /\ Commit(r)
                    /\ UNCHANGED isPlaying
                    /\ stack' = IF r.exc # "none" THEN Pop(stack)
                                ELSE [stack EXCEPT ![Len(stack)].i = f.i + 1]
    /\ UNCHANGED qAppDefined

pause(playing) == FALSE

Pause ==
    /\ isPlaying' = pause(isPlaying)
    /\ stack' = [k \in 1..Len(stack) |-> [stack[k] EXCEPT !.paused = TRUE]]
    /\ Commit(Viewer)
    /\ UNCHANGED qAppDefined

Next ==
    \/ SetImage
    \/ Open
    \/ SetSeparateChannels
    \/ SetCurrentIndexes
    \/ SliderMoved
    \/ WheelEvent
    \/ Play
    \/ PlayStep
    \/ Pause

Spec == Init /\ [][Next]_vars

\* ------------------------------------------------------------ claims
Sizes(sbs) == [k \in 1..Len(sbs) |-> sbs[k].maximum + 1]

Values(sbs) == [k \in 1..Len(sbs) |-> sbs[k].value]

Last(q) == q[Len(q)]

\* The frame axis: a PIL image's frames, an ndarray's last extra dimension.
FrameAxisSize(im) ==
    IF im.kind = "pil" THEN im.n_frames
    ELSE IF im.kind = "ndarray" /\ im.shape # <<>> THEN Last(im.shape)
    ELSE 1

HasChannelAxis(im, sep) == im.kind = "pil" /\ im.n_channels > 1 /\ sep

\* The frame the claims expect for source im at the indexes ix.
FrameAt(im, sep, ix) ==
    IF im.kind = "ndarray" THEN SliceFrame(im, ix)
    ELSE IF im.kind = "none" THEN NoFrame
    ELSE LET f == IF im.n_frames > 1 THEN Last(ix) ELSE 0
         IN  IF HasChannelAxis(im, sep) THEN ChannelFrame(im, f, ix[1]) ELSE CompositeFrame(im, f)

Stopped == ~isPlaying /\ stack = <<>>

\* C1: play from Stopped at index i of a frame axis of size n > 1 starts a loop
\* from i to n-1; each pass that no navigation disturbed advances the index by
\* exactly one and shows that frame; at n-1 the loop ends in Stopped.
C1_SinglePass ==
    [][/\ (Play /\ Stopped /\ scrollbars # <<>> /\ FrameAxisSize(image) > 1)
            => /\ isPlaying'
               /\ stack' = <<[i |-> Last(scrollbars).value, last |-> FrameAxisSize(image) - 1,
                              paused |-> FALSE]>>
       /\ (PlayStep /\ Len(stack) = 1 /\ isPlaying /\ Last(scrollbars).value = stack[1].i
                    /\ FrameAxisSize(image) > 1 /\ stack[1].i < FrameAxisSize(image) - 1)
            => /\ Last(scrollbars').value = stack[1].i + 1
               /\ currentFrame' = FrameAt(image, separateChannels, Values(scrollbars'))
               /\ Len(stack') = 1 /\ stack'[1].i = stack[1].i + 1
       /\ (PlayStep /\ Len(stack) = 1 /\ isPlaying /\ Last(scrollbars).value = stack[1].i
                    /\ FrameAxisSize(image) > 1 /\ stack[1].i = FrameAxisSize(image) - 1)
            => /\ ~isPlaying'
               /\ stack' = <<>>
               /\ Last(scrollbars').value = FrameAxisSize(image) - 1
      ]_vars

\* C2: a play() that a pause reached while it was suspended at index k never
\* advances again: it stays suspended as it is, or it returns leaving Stopped
\* with the indexes and the frame as they were; and a pause in Stopped changes
\* nothing.
C2_PauseHalts ==
    [][/\ \A k \in 1..Len(stack) :
            stack[k].paused =>
                \/ k <= Len(stack') /\ stack'[k] = stack[k]
                \/ /\ k = Len(stack) /\ stack' = Pop(stack)
                   /\ ~isPlaying'
                   /\ scrollbars' = scrollbars
                   /\ currentFrame' = currentFrame
       /\ (Pause /\ Stopped) => UNCHANGED vars
      ]_vars

\* A pause has reached a play() suspended before the last frame.
C2_Witness ==
    /\ stack # <<>>
    /\ Last(stack).paused
    /\ ~isPlaying
    /\ Last(stack).i < Last(stack).last
    /\ Last(stack).i > 0

\* C3: when the source has no axis at all, or only the channel axis of a
\* one-frame PIL image with separateChannels, a play request leaves Stopped and
\* every index as it was.
C3_PlayNeedsFrameAxis ==
    [][(/\ Play
        /\ Stopped
        /\ \/ AxisSizes(image, separateChannels) = <<>>
           \/ HasChannelAxis(image, separateChannels) /\ image.n_frames = 1)
            => /\ ~isPlaying'
               /\ stack' = <<>>
               /\ scrollbars' = scrollbars
      ]_vars

\* C4: for a PIL image with C channels and F frames the scrollbars are a
\* channel scrollbar of C values iff C > 1 and separateChannels, then a frame
\* scrollbar of F values iff F > 1, and nothing else.
C4_LazyAxisSet ==
    image.kind = "pil" =>
        Sizes(scrollbars) =
            (IF image.n_channels > 1 /\ separateChannels THEN <<image.n_channels>> ELSE <<>>)
            \o (IF image.n_frames > 1 THEN <<image.n_frames>> ELSE <<>>)

\* Both axes present, away from index 0.
C4_Witness ==
    /\ image.kind = "pil" /\ image.n_channels > 1 /\ image.n_frames > 2 /\ separateChannels
    /\ Sizes(scrollbars) = <<image.n_channels, image.n_frames>>
    /\ scrollbars[1].value > 0 /\ scrollbars[2].value > 0

\* C5: for an ndarray of shape (R, C, *extra) there is one scrollbar per extra
\* dimension, the k-th admitting exactly the values 0 .. extra[k]-1.
C5_DenseControls ==
    image.kind = "ndarray" =>
        /\ Len(scrollbars) = Len(image.shape)
        /\ \A k \in 1..Len(scrollbars) : scrollbars[k].maximum = image.shape[k] - 1

\* C6: after setImage/open with a source, or setSeparateChannels, there is one
\* scrollbar per axis of the source, every index is 0 and the current frame is
\* the source's frame at the all-zero index.
C6_FullReset ==
    [][((SetImage \/ Open \/ SetSeparateChannels) /\ image' # NoImage)
            => /\ Len(scrollbars') = Len(AxisSizes(image', separateChannels'))
               /\ \A k \in 1..Len(scrollbars') : scrollbars'[k].value = 0
               /\ currentFrame' = FrameAt(image', separateChannels', Values(scrollbars'))
      ]_vars

\* C7: for a PIL image the current frame is the one at the frame index (last
\* scrollbar) when there is a frame axis, its channel at the channel index
\* (first scrollbar) when channels are separated and all its channels otherwise;
\* resolving the same indexes again seeks first, then decodes, then extracts,
\* and yields the same frame, however often.
C7_LazyResolve ==
    image.kind = "pil" =>
        LET r == updateFrame(Viewer)
            ix == Values(scrollbars)
        IN  /\ currentFrame = FrameAt(image, separateChannels, ix)
            /\ pos = (IF image.n_frames > 1 THEN Last(ix) ELSE 0)
            /\ r.exc = "none"
            /\ r.ops = (IF image.n_frames > 1 THEN <<"seek">> ELSE <<>>) \o <<"decode">>
                       \o (IF HasChannelAxis(image, separateChannels) THEN <<"extract">> ELSE <<>>)
            /\ r.currentFrame = currentFrame
            /\ updateFrame(r).currentFrame = r.currentFrame

\* A channel other than the first of a frame other than the first, the two
\* indexes differing.
C7_Witness ==
    /\ image.kind = "pil" /\ separateChannels
    /\ Len(scrollbars) = 2
    /\ scrollbars[1].value = 1 /\ scrollbars[2].value = 2
    /\ currentFrame = ChannelFrame(image, 2, 1)

\* C8: for an ndarray the current frame is the slice at the current indexes.
C8_DenseResolve ==
    image.kind = "ndarray" => currentFrame = SliceFrame(image, Values(scrollbars))

\* C9: setCurrentIndexes with an index equal to its axis's size fails and
\* leaves the source position, the indexes and the frame unchanged; with every
\* index at most size-1 it succeeds.  Stated for a PIL image, where resolving
\* in-range indexes does not fail.
C9_IndexOutOfRange ==
    \A indexes \in IndexInputs :
        image.kind = "pil" /\ Len(indexes) = Len(scrollbars) =>
            LET r == setCurrentIndexes(Viewer, indexes)
                sizes == AxisSizes(image, separateChannels)
            IN  IF \E k \in 1..Len(indexes) : indexes[k] = sizes[k]
                THEN /\ r.err # "none"
                     /\ r.pos = pos /\ r.scrollbars = scrollbars /\ r.currentFrame = currentFrame
                ELSE (\A k \in 1..Len(indexes) : indexes[k] < sizes[k]) => r.err = "none"

\* C10: every updateFrame() that setImage or setSeparateChannels causes, the
\* ones from valueChanged while the scrollbars are being re-ranged included,
\* sees one index per axis of the source, each within the axis; stated for the
\* case the claim singles out, a PIL image replaced by a PIL image.
C10_ResolveInRange ==
    image.kind = "pil" =>
        /\ \A im \in PilImages : setImage(Viewer, im).resolveOk
        /\ \A tf \in BOOLEAN : setSeparateChannels(Viewer, tf).resolveOk
====
